---- MODULE Spec2Model ----
(***************************************************************************)
(* Model of the Smart Todo List frontend (OfficialDeepSaha/Winner):        *)
(*   - the schedule optimizer's local path (services/aiSchedulingService)  *)
(*   - CalendarPage's optimize/apply steps and the time-block writers      *)
(*   - the task list's status operations (useTasks, TaskList)              *)
(*   - the input forms (TaskForm, ContextInput, TimeBlockModal, EventModal)*)
(* Times are minutes of local time counted from Monday 00:00 of week 0.    *)
(***************************************************************************)
EXTENDS Integers, Sequences, FiniteSets, TLC

VARIABLES
    \* ---- schedule optimizer (aiSchedulingService.getOptimizedSchedule)
    now,            \* value of new Date() during the run
    tasks,          \* the task list handed to getOptimizedSchedule
    schedule,       \* the returned { schedule } array
    schedPc,        \* "idle" before the run, "done" after it, "rerun" after a second run
    rerunNow,       \* value of new Date() during the second run of the same list
    rerunSchedule,  \* the { schedule } array the second run returned
    \* ---- backend store behind /time-blocks/ and /calendar-events/
    serverBlocks,   \* the user's time blocks, in creation order
    serverEvents,   \* the user's calendar events
    \* ---- CalendarPage (lib/api.js, second half)
    pageTasks,          \* tasks of useTasks()
    optimizing,
    showOptimizeDialog,
    optimizedSchedule,
    applyingSchedule,
    calendarRefreshCounter,
    todayTimeBlocks,    \* the sidebar's list, kept as its length
    applyPc,        \* where applyOptimizedSchedule stands: [at, i, items]
    attempted,      \* items of the running (or last) apply whose createTimeBlock was called
    lastToast,      \* title and variant of the last toast shown
    \* ---- task list (hooks/useTasks, components/TaskList)
    serverTasks,    \* status of every task in the backend, by id
    listTasks,      \* useTasks' tasks state: the list as last received
    selectedTasks,  \* TaskList's selectedTasks, in click order
    statusMoves,    \* status changes the task list requested: [id, from, to]
    listToast,      \* the toast TaskList showed last
    \* ---- input forms (TaskForm, ContextInput, TimeBlockModal, EventModal)
    tzOffset,       \* local time minus UTC, in minutes
    formData,       \* TaskForm's formData (the validated and scheduling fields)
    errors,         \* TaskForm's errors, as the set of fields in error
    apiCalls,       \* requests the forms sent, oldest first
    formToast,      \* the toast a form's submit handler showed last
    lastAnalysis,   \* ContextInput's lastAnalysis: "null" or "analysis"
    contextError,   \* useContextAnalysis' error state is set
    \* ---- AI prioritization (hooks/useTaskPrioritization, TaskList)
    prioritizedTasks,           \* the hook's prioritizedTasks: [id, ai_priority_score]
    aiPrioritizationEnabled,
    prioritizedTasksData,       \* TaskList's list as applyAIPrioritization returned it
    prioRequests,               \* the prioritization requests sent: [origin, asked, sent]
    prioToast,                  \* the toast reprioritizeAllTasks showed last
    \* ---- authentication and routing (hooks/useAuth, App, ApiService)
    user,               \* AuthProvider's user is set (not null)
    authLoading,        \* AuthProvider's loading
    authError,          \* AuthProvider's error is set
    storedAuthToken,    \* localStorage holds authToken
    storedUserData,     \* localStorage holds userData (with username and token)
    memToken,           \* apiService.token is set
    authPc,             \* "mounting", "idle", or "login" while login() awaits
    profileRequest,     \* "pending" while GET /auth/user/ of fetchUserProfile is in flight
    routePath,          \* the location of the router
    routeView,          \* what the route's guard rendered: "spinner", "content", "loginPage"
    \* ---- the Calendar component inside CalendarPage (components/Calendar.jsx)
    calendarFetchedFlag,    \* the refreshFlag the effect of Calendar last ran fetchData for
    calendarEvents,         \* how many events Calendar holds
    calendarTimeBlocks,     \* how many time blocks Calendar holds
    \* ---- one call of getSchedulingSuggestions (aiSchedulingService)
    sugTask,        \* the taskData argument, as the form's strings
    sugPc,          \* "idle", "fetching", "requesting", "settled"
    sugFailed,      \* the step of the call that failed: "", "fetch" or "request"
    sugOutcome,     \* how the returned promise settled
    \* ---- what the apply runs did for the proposal on show (CalendarPage)
    createdEntries, \* the entries of the proposal for which a time block was created
    recreated,      \* a time block was created for an entry that already had one created
    \* ---- useTasks (hooks/useTasks): fetchTasks
    fetchCalls,         \* the calls of fetchTasks in the order issued: "pending", "ok", "failed"
    fetchLoading,       \* loading
    fetchError,         \* error is set
    fetchedTasksOf,     \* the call whose response tasks holds (0: the initial [])
    fetchedPaginationOf,    \* the call whose response pagination holds (0: the initial one)
    \* ---- useContextAnalysis (hooks/useAI) and the store behind /context-entries/
    serverContexts,     \* how many context entries the store holds; their ids are 1 .. n
    contexts,           \* the hook's contexts list, as the ids of its entries
    ctxLoading,         \* loading
    ctxError,           \* error is set
    ctxPc,              \* "mounting", "idle", "creating", "analyzing"
    ctxCreated          \* ids of the entries that analyzeAndCreateContext created

schedVars == <<now, tasks, schedule, schedPc, rerunNow, rerunSchedule>>

serverVars == <<serverBlocks, serverEvents>>

pageVars == <<pageTasks, optimizing, showOptimizeDialog, optimizedSchedule,
              applyingSchedule, calendarRefreshCounter, todayTimeBlocks,
              applyPc, attempted, lastToast>>

listVars == <<serverTasks, listTasks, selectedTasks, statusMoves, listToast>>

formVars == <<tzOffset, formData, errors, apiCalls, formToast, lastAnalysis, contextError>>

prioVars == <<prioritizedTasks, aiPrioritizationEnabled, prioritizedTasksData,
              prioRequests, prioToast>>

\* the parts of the frontend that the optimizer, the calendar, the task
\* list's status operations and the forms never touch
authVars == <<user, authLoading, authError, storedAuthToken, storedUserData, memToken,
              authPc, profileRequest, routePath, routeView>>

calVars == <<calendarFetchedFlag, calendarEvents, calendarTimeBlocks>>

sugVars == <<sugTask, sugPc, sugFailed, sugOutcome>>

applyHistVars == <<createdEntries, recreated>>

ctxVars == <<serverContexts, contexts, ctxLoading, ctxError, ctxPc, ctxCreated>>

fetchVars == <<fetchCalls, fetchLoading, fetchError, fetchedTasksOf, fetchedPaginationOf>>

\* what the handlers of CalendarPage leave alone besides the lists and forms
pageUntouchedVars == <<prioVars, authVars, calVars, sugVars, fetchVars, ctxVars>>

lateVars == <<sugVars, applyHistVars, fetchVars, ctxVars>>

moreVars == <<prioVars, authVars, calVars, lateVars>>

vars == <<schedVars, serverVars, pageVars, listVars, formVars, moreVars>>

\* JS null / undefined / '' for an optional time
Null == 0 - 1

MinutesPerDay == 24 * 60

-----------------------------------------------------------------------------
\* Bounds of the model

\* longest task list handed to one optimization run
MaxTasks == 2

\* most time blocks the backend store holds
MaxBlocks == 2

\* most calendar events the backend store holds
MaxEvents == 1

\* most completed apply runs (caps calendarRefreshCounter)
MaxRefresh == 1

\* days of the week on which a run can start (0 = Monday .. 6 = Sunday)
NowDays == 0 .. 6

\* local times of day (minutes after midnight) at which a run can start
NowTimesOfDay == {8 * 60 + 15, 15 * 60 + 15, 22 * 60 + 15}

\* first minute of the week in which runs start (week 1, so that times
\* computed backwards from a deadline stay non-negative)
WeekBase == 7 * MinutesPerDay

NowValues == {WeekBase + d * MinutesPerDay + m : d \in NowDays, m \in NowTimesOfDay}

Priorities == {"urgent", "high", "medium", "low"}

\* deadlines of the input tasks, as offsets in minutes from now
DeadlineOffsets == {30, MinutesPerDay}

\* estimated_duration of the input tasks in minutes; 0 stands for an absent
\* (null) estimated_duration, which is falsy like 0
Durations == {0, 60, 480}

-----------------------------------------------------------------------------
\* Date arithmetic of the JS Date object, in local time

getHours(t) == (t % MinutesPerDay) \div 60

getMinutes(t) == t % 60

\* 0 = Sunday .. 6 = Saturday; minute 0 is a Monday
getDay(t) == ((t \div MinutesPerDay) + 1) % 7

\* d.setHours(h, m, 0, 0)
setHours(t, h, m) == (t \div MinutesPerDay) * MinutesPerDay + h * 60 + m

\* d.setDate(d.getDate() + n)
addDays(t, n) == t + n * MinutesPerDay

\* deadline.setHours(23, 59, 59, 999): the last minute of the day. All other
\* times of a run are whole minutes, so "endOfDay < t" is decided by the minute.
endOfDay(t) == setHours(t, 23, 59)

-----------------------------------------------------------------------------
\* generateLocalSchedulingSuggestions

WorkStartHour == 9

WorkEndHour == 17

CloseEnoughMinutes == 30

DefaultDuration == 60

duration(task) ==
    IF task.estimated_duration # 0 THEN task.estimated_duration ELSE DefaultDuration

\* lines 89-103: delay after now by priority; "urgent" takes the else branch
priorityDelay(p) ==
    IF p = "high" THEN 60
    ELSE IF p = "medium" THEN 24 * 60
    ELSE 72 * 60

\* lines 112-126: hours before the end of the deadline's day
deadlineLead(p) ==
    IF p = "high" THEN 24 * 60
    ELSE IF p = "medium" THEN 48 * 60
    ELSE 72 * 60

\* lines 86-128
startByPriorityAndDeadline(task, n) ==
    LET s0 == n + priorityDelay(task.priority)
    IN  IF task.deadline # Null /\ endOfDay(task.deadline) < s0
        THEN endOfDay(task.deadline) - deadlineLead(task.priority)
        ELSE s0

\* lines 130-137
startInWorkingHours(s) ==
    IF getHours(s) < WorkStartHour THEN setHours(s, WorkStartHour, 0)
    ELSE IF getHours(s) >= WorkEndHour THEN setHours(addDays(s, 1), WorkStartHour, 0)
    ELSE s

\* lines 139-155: the start after the end-of-day check
startBeforeClose(s, dur) ==
    LET e == s + dur
    IN  IF getHours(e) >= WorkEndHour
           /\ ~(getHours(e) = WorkEndHour /\ getMinutes(e) <= CloseEnoughMinutes)
        THEN setHours(addDays(s, 1), WorkStartHour, 0)
        ELSE s

\* lines 157-167
startOffWeekend(s) ==
    IF getDay(s) = 0 THEN addDays(s, 1)
    ELSE IF getDay(s) = 6 THEN addDays(s, 2)
    ELSE s

generateLocalSchedulingSuggestions(task, n) ==
    LET dur == duration(task)
        s == startOffWeekend(
                 startBeforeClose(
                     startInWorkingHours(startByPriorityAndDeadline(task, n)), dur))
    IN  [suggested_start_time |-> s, suggested_end_time |-> s + dur]

-----------------------------------------------------------------------------
\* getOptimizedSchedule, fallback branch (lines 257-296)

\* priorityOrder[p]; 0 stands for undefined ("urgent" is not a key)
priorityOrder(p) ==
    IF p = "high" THEN 3
    ELSE IF p = "medium" THEN 2
    ELSE IF p = "low" THEN 1
    ELSE 0

Sign(x) == IF x < 0 THEN 0 - 1 ELSE IF x > 0 THEN 1 ELSE 0

\* The comparator of lines 264-280, as Array.prototype.sort reads it: the sign
\* of the returned number, NaN read as +0. undefined - n is NaN and NaN !== 0,
\* so a pair with an "urgent" task returns NaN before the deadlines are looked at.
compareTasks(a, b) ==
    IF priorityOrder(a.priority) = 0 \/ priorityOrder(b.priority) = 0 THEN 0
    ELSE IF priorityOrder(b.priority) # priorityOrder(a.priority)
         THEN Sign(priorityOrder(b.priority) - priorityOrder(a.priority))
    ELSE IF a.deadline # Null /\ b.deadline # Null THEN Sign(a.deadline - b.deadline)
    ELSE IF a.deadline # Null THEN 0 - 1
    ELSE IF b.deadline # Null THEN 1
    ELSE 0

\* ECMAScript: the comparator is consistent on the elements of the array
consistentComparator(ts) ==
    \A i, j, k \in DOMAIN ts :
        /\ compareTasks(ts[i], ts[i]) = 0
        /\ compareTasks(ts[i], ts[j]) = 0 - compareTasks(ts[j], ts[i])
        /\ (compareTasks(ts[i], ts[j]) = 0 /\ compareTasks(ts[j], ts[k]) = 0)
               => compareTasks(ts[i], ts[k]) = 0
        /\ (compareTasks(ts[i], ts[j]) < 0 /\ compareTasks(ts[j], ts[k]) < 0)
               => compareTasks(ts[i], ts[k]) < 0

IndexOrders(n) ==
    {p \in [1 .. n -> 1 .. n] : \A i, j \in 1 .. n : i # j => p[i] # p[j]}

\* p orders ts as a stable sort does
stableSorted(ts, p) ==
    \A i, j \in DOMAIN ts :
        i < j =>
            \/ compareTasks(ts[p[i]], ts[p[j]]) < 0
            \/ (compareTasks(ts[p[i]], ts[p[j]]) = 0 /\ p[i] < p[j])

\* The results [...tasks].sort(compareTasks) can have: the stable order when
\* the comparator is consistent, and otherwise an implementation-defined order
\* (ECMAScript 23.1.3.30), modelled as any permutation.
sortedTasks(ts) ==
    LET n == Len(ts)
    IN  IF consistentComparator(ts)
        THEN {[i \in 1 .. n |-> ts[p[i]]] : p \in {q \in IndexOrders(n) : stableSorted(ts, q)}}
        ELSE {[i \in 1 .. n |-> ts[p[i]]] : p \in IndexOrders(n)}

\* lines 283-293: one entry per sorted task
scheduleEntry(task, n) ==
    LET sug == generateLocalSchedulingSuggestions(task, n)
    IN  [task_id |-> task.id,
         priority |-> task.priority,
         suggested_start_time |-> sug.suggested_start_time,
         suggested_end_time |-> sug.suggested_end_time]

\* an optimizer that keeps state between runs: after an earlier run it plans
\* from the day after
buildScheduleAfterEarlierRun(sorted, n) ==
    [i \in DOMAIN sorted |->
        scheduleEntry(sorted[i], IF schedule = <<>> THEN n ELSE addDays(n, 1))]

buildSchedule(sorted, n) == [i \in DOMAIN sorted |-> scheduleEntry(sorted[i], n)]

\* created_at is the task's rank by creation time (1: created first)
TaskValues(n, id) ==
    [id : {id},
     priority : Priorities,
     deadline : {Null} \cup {n + o : o \in DeadlineOffsets},
     estimated_duration : Durations,
     created_at : 1 .. MaxTasks]

\* the lists of one to MaxTasks tasks, in any order of creation
TaskLists(n) ==
    UNION {{ts \in [1 .. len -> UNION {TaskValues(n, id) : id \in 1 .. len}] :
               /\ \A i \in 1 .. len : ts[i].id = i /\ ts[i].created_at <= len
               /\ \A i, j \in 1 .. len : i # j => ts[i].created_at # ts[j].created_at}
           : len \in 1 .. MaxTasks}

\* the state of the backend store and of CalendarPage before anything happened
IdlePc == [at |-> "idle", i |-> 0, items |-> <<>>]

NoToast == [title |-> "", variant |-> ""]

ServerStartsEmpty == serverBlocks = <<>> /\ serverEvents = <<>>

PageUnmounted ==
    /\ pageTasks = <<>>
    /\ optimizing = FALSE
    /\ showOptimizeDialog = FALSE
    /\ optimizedSchedule = <<>>
    /\ applyingSchedule = FALSE
    /\ calendarRefreshCounter = 0
    /\ todayTimeBlocks = 0
    /\ applyPc = IdlePc
    /\ attempted = {}
    /\ lastToast = NoToast

\* useTasks before its first fetch, TaskList with nothing selected
ListUnmounted ==
    /\ serverTasks = <<>>
    /\ listTasks = <<>>
    /\ selectedTasks = <<>>
    /\ statusMoves = {}
    /\ listToast = NoToast

\* TaskForm's useState (lines 101-111): every field is ''
EmptyForm ==
    [title |-> <<>>,
     deadline |-> "",
     estimated_duration |-> "",
     scheduled_start_time |-> Null,
     scheduled_end_time |-> Null]

FormsUnmounted ==
    /\ tzOffset = 0
    /\ formData = EmptyForm
    /\ errors = {}
    /\ apiCalls = <<>>
    /\ formToast = NoToast
    /\ lastAnalysis = "null"
    /\ contextError = FALSE

\* useTaskPrioritization's useState values, TaskList's prioritizedTasksData
PrioUnmounted ==
    /\ prioritizedTasks = <<>>
    /\ aiPrioritizationEnabled = TRUE
    /\ prioritizedTasksData = <<>>
    /\ prioRequests = {}
    /\ prioToast = NoToast

\* AuthProvider's useState values and an empty localStorage, before App's
\* first effect
AuthUnmounted ==
    /\ user = FALSE
    /\ authLoading = TRUE
    /\ authError = FALSE
    /\ storedAuthToken = FALSE
    /\ storedUserData = FALSE
    /\ memToken = FALSE
    /\ authPc = "mounting"
    /\ profileRequest = "none"
    /\ routePath = "/login"
    /\ routeView = "spinner"

\* Calendar after its first effect (refreshFlag 0) on an empty store
CalUnmounted ==
    /\ calendarFetchedFlag = 0
    /\ calendarEvents = 0
    /\ calendarTimeBlocks = 0

NoSuggestTask == [priority |-> "medium", deadline |-> Null, estimated_duration |-> ""]

Pending == [state |-> "pending"]

\* getSchedulingSuggestions has not been called
SuggestIdle ==
    /\ sugTask = NoSuggestTask
    /\ sugPc = "idle"
    /\ sugFailed = ""
    /\ sugOutcome = Pending

\* no proposal was applied yet
NothingApplied == createdEntries = {} /\ recreated = FALSE

\* useTasks' useState values, before its effect calls fetchTasks
FetchUnmounted ==
    /\ fetchCalls = <<>>
    /\ fetchLoading = FALSE
    /\ fetchError = FALSE
    /\ fetchedTasksOf = 0
    /\ fetchedPaginationOf = 0

\* useContextAnalysis' useState values on an empty store
ContextUnmounted ==
    /\ serverContexts = 0
    /\ contexts = <<>>
    /\ ctxLoading = FALSE
    /\ ctxError = FALSE
    /\ ctxPc = "mounting"
    /\ ctxCreated = {}

LateUnmounted == SuggestIdle /\ NothingApplied /\ FetchUnmounted /\ ContextUnmounted

MoreUnmounted == PrioUnmounted /\ AuthUnmounted /\ CalUnmounted /\ LateUnmounted

\* no second run of the optimizer yet
NoRerun == rerunNow = Null /\ rerunSchedule = <<>>

SchedInit ==
    /\ now \in NowValues
    /\ tasks \in TaskLists(now)
    /\ schedule = <<>>
    /\ schedPc = "idle"
    /\ NoRerun
    /\ ServerStartsEmpty
    /\ PageUnmounted
    /\ ListUnmounted
    /\ FormsUnmounted
    /\ MoreUnmounted

\* One run of getOptimizedSchedule whose request fails (or answers non-OK), so
\* that the catch block computes the schedule. The other branch returns the
\* backend's response as it is.
GetOptimizedSchedule ==
    /\ schedPc = "idle"
    /\ \E sorted \in sortedTasks(tasks) :
           schedule' = buildSchedule(sorted, now)
    /\ schedPc' = "done"
    /\ UNCHANGED <<now, tasks, rerunNow, rerunSchedule, serverVars, pageVars, listVars,
                   formVars, moreVars>>

\* the clock of a second run: the same instant, or an hour later
RerunNowValues(n) == {n, n + 60}

\* The engine that sorted the list in the first run sorts the same list the
\* same way in the second: Array.prototype.sort has no state and no random
\* choice, whatever order it gives to an inconsistent comparator.
sameEngineOrder(sorted) ==
    \A i \in DOMAIN sorted : sorted[i].id = schedule[i].task_id

\* A second run of getOptimizedSchedule with the same task list, again ending
\* in the fallback branch.
GetOptimizedScheduleAgain ==
    /\ schedPc = "done"
    /\ \E n2 \in RerunNowValues(now), sorted \in sortedTasks(tasks) :
           /\ sameEngineOrder(sorted)
           /\ rerunNow' = n2
           /\ rerunSchedule' = buildSchedule(sorted, n2)
    /\ schedPc' = "rerun"
    /\ UNCHANGED <<now, tasks, schedule, serverVars, pageVars, listVars, formVars,
                   moreVars>>

SchedNext ==
    \/ GetOptimizedSchedule
    \/ GetOptimizedScheduleAgain

SpecSched == SchedInit /\ [][SchedNext]_vars

-----------------------------------------------------------------------------
\* Properties of one optimization run

entryOf(id) == CHOOSE i \in DOMAIN schedule : schedule[i].task_id = id

entriesOverlap(a, b) ==
    ~(a.suggested_end_time <= b.suggested_start_time
      \/ b.suggested_end_time <= a.suggested_start_time)

\* C1: no two entries of the schedule of one optimization run overlap in
\* time: for distinct entries a and b, a ends at or before b starts, or b ends
\* at or before a starts.
C1_NoOverlapInRun ==
    schedPc = "done" =>
        \A i, j \in DOMAIN schedule :
            i # j => ~entriesOverlap(schedule[i], schedule[j])

\* C2: a task that has a deadline is never given a suggested interval that
\* ends after the deadline.
C2_NeverPastDeadline ==
    schedPc = "done" =>
        \A i \in DOMAIN schedule :
            tasks[schedule[i].task_id].deadline # Null =>
                schedule[i].suggested_end_time <= tasks[schedule[i].task_id].deadline

insideWorkingWindow(e) ==
    /\ e.suggested_start_time >= setHours(e.suggested_start_time, WorkStartHour, 0)
    /\ e.suggested_end_time <= setHours(e.suggested_start_time, WorkEndHour, 0)
    /\ getDay(e.suggested_start_time) \notin {0, 6}

\* C3: every suggested interval lies inside the 09:00-17:00 window of one
\* day, and that day is neither Saturday nor Sunday.
C3_InsideWorkingHours ==
    schedPc = "done" =>
        \A i \in DOMAIN schedule : insideWorkingWindow(schedule[i])

\* the tasks of the scenario of C4
isTaskA(t) ==
    t.priority = "urgent" /\ t.deadline = now + MinutesPerDay /\ t.estimated_duration = 60

isTaskB(t) ==
    t.priority = "low" /\ t.deadline = Null /\ t.estimated_duration = 60

\* C4: with A (urgent, deadline now + 1 day, 60 min) and B (low, no deadline,
\* 60 min), in either input order, the schedule lists A first and A starts
\* strictly earlier than B.
C4_UrgentBeforeLow ==
    (schedPc = "done" /\ Len(tasks) = 2) =>
        \A a, b \in DOMAIN tasks :
            (a # b /\ isTaskA(tasks[a]) /\ isTaskB(tasks[b])) =>
                /\ schedule[1].task_id = a
                /\ schedule[entryOf(a)].suggested_start_time
                       < schedule[entryOf(b)].suggested_start_time

\* the slot a task gets when it is the only task of the run
slotAlone(id) == generateLocalSchedulingSuggestions(tasks[id], now)

\* C5: when two tasks of one run would both get the same earliest slot, the
\* task listed first gets that slot and the task listed after it gets a later
\* slot that starts once the first has ended; both are in the schedule.
C5_LowerRankedPushedLater ==
    schedPc = "done" =>
        /\ \A id \in DOMAIN tasks : \E i \in DOMAIN schedule : schedule[i].task_id = id
        /\ \A i, j \in DOMAIN schedule :
               (i < j /\ slotAlone(schedule[i].task_id) = slotAlone(schedule[j].task_id)) =>
                   /\ schedule[i].suggested_start_time
                          = slotAlone(schedule[i].task_id).suggested_start_time
                   /\ schedule[j].suggested_start_time >= schedule[i].suggested_end_time

\* the rank the design gives a priority
priorityRank(p) ==
    IF p = "urgent" THEN 4
    ELSE IF p = "high" THEN 3
    ELSE IF p = "medium" THEN 2
    ELSE 1

\* C14: the entries of the schedule of one run are listed in priority-rank
\* order (urgent > high > medium > low), whatever the order of the input: no
\* entry comes before an entry of higher priority.
C14_EntriesInPriorityOrder ==
    \A i, j \in DOMAIN schedule :
        i < j => priorityRank(schedule[i].priority) >= priorityRank(schedule[j].priority)

\* the task of the i-th entry
taskOfEntry(i) == tasks[CHOOSE k \in DOMAIN tasks : tasks[k].id = schedule[i].task_id]

\* C15: among tasks of equal rank the one with the earlier deadline is listed
\* first, and when both have the same deadline or neither has one, the one
\* created earlier is listed first.
C15_TieBreakDeadlineThenCreation ==
    \A i, j \in DOMAIN schedule :
        (i < j /\ taskOfEntry(i).priority = taskOfEntry(j).priority) =>
            /\ (taskOfEntry(i).deadline # Null /\ taskOfEntry(j).deadline # Null)
                   => taskOfEntry(i).deadline <= taskOfEntry(j).deadline
            /\ taskOfEntry(i).deadline = taskOfEntry(j).deadline
                   => taskOfEntry(i).created_at < taskOfEntry(j).created_at

\* C16: the scheduler scans forward from now: no entry starts before the
\* time of the run, a task whose deadline is closer than its priority's
\* delay included.
C16_StartNotBeforeNow ==
    \A i \in DOMAIN schedule : schedule[i].suggested_start_time >= now

-----------------------------------------------------------------------------
\* Backend store of time blocks and calendar events. The backend is not part
\* of the frontend sources; its write rule is the one the design states: a
\* write of an active time block is refused when its interval overlaps an
\* active time block or an event that exists at that moment.

BlockStatuses == {"scheduled", "in_progress", "completed", "cancelled"}

ActiveStatuses == {"scheduled", "in_progress"}

intervalsOverlap(a, b) == a.start_time < b.end_time /\ b.start_time < a.end_time

\* the blocks of the store other than the one at position skip (0: none)
otherBlocks(skip) == {k \in DOMAIN serverBlocks : k # skip}

\* a backend without the overlap rule
serverAcceptsAnyBlock(data, skip) == TRUE

serverAcceptsBlock(data, skip) ==
    data.status \in ActiveStatuses =>
        /\ \A k \in otherBlocks(skip) :
               serverBlocks[k].status \in ActiveStatuses
                   => ~intervalsOverlap(data, serverBlocks[k])
        /\ \A e \in DOMAIN serverEvents : ~intervalsOverlap(data, serverEvents[e])

RemoveAt(seq, k) == [i \in 1 .. Len(seq) - 1 |-> IF i < k THEN seq[i] ELSE seq[i + 1]]

\* POST /time-blocks/ answered OK: the block is stored
serverCreateBlock(data) ==
    /\ Len(serverBlocks) < MaxBlocks
    /\ serverAcceptsBlock(data, 0)
    /\ serverBlocks' = Append(serverBlocks, data)

\* PATCH /time-blocks/<id>/ answered OK
serverUpdateBlock(k, data) ==
    /\ serverAcceptsBlock(data, k)
    /\ serverBlocks' = [serverBlocks EXCEPT ![k] = data]

-----------------------------------------------------------------------------
\* CalendarPage

\* times the user can pick in the calendar's forms
CalTimes(n) ==
    {setHours(n, 9, 15), setHours(n, 10, 15), setHours(addDays(n, 3), 10, 0)}

PagePriorities == {"high", "low"}

PageStatuses == {"pending", "completed"}

PageTaskValues(id) ==
    [id : {id},
     priority : PagePriorities,
     deadline : {Null},
     estimated_duration : {60},
     status : PageStatuses,
     scheduled_start_time : {Null}]

PageTaskLists ==
    {ts \in [1 .. MaxTasks -> UNION {PageTaskValues(id) : id \in 1 .. MaxTasks}] :
        \A i \in 1 .. MaxTasks : ts[i].id = i}

toScheduleFilter(t) ==
    (t.status = "pending" \/ t.status = "in_progress") /\ t.scheduled_start_time = Null

\* lines 626-629
tasksToSchedule(ts) == SelectSeq(ts, toScheduleFilter)

Toast(title, variant) == [title |-> title, variant |-> variant]

ApplyInit ==
    /\ now = WeekBase + 8 * 60 + 15
    /\ tasks = <<>>
    /\ schedule = <<>>
    /\ schedPc = "idle"
    /\ NoRerun
    /\ ServerStartsEmpty
    /\ pageTasks \in PageTaskLists
    /\ optimizing = FALSE
    /\ showOptimizeDialog = FALSE
    /\ optimizedSchedule = <<>>
    /\ applyingSchedule = FALSE
    /\ calendarRefreshCounter = 0
    /\ todayTimeBlocks = 0
    /\ applyPc = IdlePc
    /\ attempted = {}
    /\ lastToast = NoToast
    /\ ListUnmounted
    /\ FormsUnmounted
    /\ MoreUnmounted

\* the body sent for one schedule item (lines 667-673); the store is modelled
\* by the interval and status of each block, so task_id and notes are left out
blockOfItem(item) ==
    [start_time |-> item.suggested_start_time,
     end_time |-> item.suggested_end_time,
     status |-> "scheduled"]

\* optimizeSchedule up to its await (lines 621-640); with nothing to schedule
\* it returns at once and finally resets optimizing
OptimizeScheduleStart ==
    /\ ~optimizing
    /\ IF tasksToSchedule(pageTasks) = <<>>
       THEN /\ lastToast' = Toast("No Tasks to Schedule", "")
            /\ UNCHANGED optimizing
       ELSE /\ optimizing' = TRUE
            /\ UNCHANGED lastToast
    /\ UNCHANGED <<moreVars, listVars, formVars, schedVars, serverVars, pageTasks, showOptimizeDialog,
                   optimizedSchedule, applyingSchedule, calendarRefreshCounter,
                   todayTimeBlocks, applyPc, attempted>>

\* an optimizeSchedule that stores the first proposed block at once
OptimizeScheduleDoneAndStore ==
    /\ optimizing
    /\ \E sorted \in sortedTasks(tasksToSchedule(pageTasks)) :
           /\ optimizedSchedule' = buildSchedule(sorted, now)
           /\ serverCreateBlock(blockOfItem(buildSchedule(sorted, now)[1]))
    /\ showOptimizeDialog' = TRUE
    /\ optimizing' = FALSE
    /\ UNCHANGED <<moreVars, listVars, formVars, schedVars, serverEvents, pageTasks,
                   applyingSchedule, calendarRefreshCounter, todayTimeBlocks, applyPc,
                   attempted, lastToast>>

\* optimizeSchedule after getOptimizedSchedule resolved (lines 640-658); the
\* schedule is the one of the fallback branch
OptimizeScheduleDone ==
    /\ optimizing
    /\ \E sorted \in sortedTasks(tasksToSchedule(pageTasks)) :
           optimizedSchedule' = buildSchedule(sorted, now)
    /\ showOptimizeDialog' = TRUE
    /\ optimizing' = FALSE
    /\ createdEntries' = {}
    /\ recreated' = FALSE
    /\ UNCHANGED <<pageUntouchedVars, listVars, formVars, schedVars, serverVars, pageTasks,
                   applyingSchedule, calendarRefreshCounter, todayTimeBlocks, applyPc,
                   attempted, lastToast>>

\* the dialog's Cancel button (line 892) and onOpenChange
CancelOptimizeDialog ==
    /\ showOptimizeDialog
    /\ showOptimizeDialog' = FALSE
    /\ UNCHANGED <<moreVars, listVars, formVars, schedVars, serverVars, pageTasks, optimizing, optimizedSchedule,
                   applyingSchedule, calendarRefreshCounter, todayTimeBlocks,
                   applyPc, attempted, lastToast>>

\* applyOptimizedSchedule up to the first await: createTimeBlock is called
\* for the first item
ApplyStart ==
    /\ showOptimizeDialog
    /\ ~applyingSchedule
    /\ Len(optimizedSchedule) # 0
    /\ calendarRefreshCounter < MaxRefresh
    /\ applyingSchedule' = TRUE
    /\ applyPc' = [at |-> "create", i |-> 1, items |-> optimizedSchedule]
    /\ attempted' = {1}
    /\ UNCHANGED <<moreVars, listVars, formVars, schedVars, serverVars, pageTasks, optimizing, showOptimizeDialog,
                   optimizedSchedule, calendarRefreshCounter, todayTimeBlocks,
                   lastToast>>

\* the catch and finally blocks of applyOptimizedSchedule (lines 690-699)
applyFailed ==
    /\ lastToast' = Toast("Error", "destructive")
    /\ applyingSchedule' = FALSE
    /\ applyPc' = [applyPc EXCEPT !.at = "idle"]

\* createTimeBlock of item i resolved: the loop goes on to the next item, or
\* past the loop closes the dialog and calls fetchTodayTimeBlocks
ApplyCreateResolved ==
    /\ applyPc.at = "create"
    /\ serverCreateBlock(blockOfItem(applyPc.items[applyPc.i]))
    /\ createdEntries' = createdEntries \cup {applyPc.i}
    /\ recreated' = (recreated \/ applyPc.i \in createdEntries)
    /\ IF applyPc.i < Len(applyPc.items)
       THEN /\ applyPc' = [applyPc EXCEPT !.i = applyPc.i + 1]
            /\ attempted' = attempted \cup {applyPc.i + 1}
            /\ UNCHANGED showOptimizeDialog
       ELSE /\ applyPc' = [applyPc EXCEPT !.at = "refresh"]
            /\ showOptimizeDialog' = FALSE
            /\ UNCHANGED attempted
    /\ UNCHANGED <<pageUntouchedVars, listVars, formVars, schedVars, serverEvents, pageTasks, optimizing, optimizedSchedule,
                   applyingSchedule, calendarRefreshCounter, todayTimeBlocks,
                   lastToast>>

\* createTimeBlock of item i threw (the request failed or the answer was not
\* OK): the exception leaves the loop
ApplyCreateRejected ==
    /\ applyPc.at = "create"
    /\ applyFailed
    /\ UNCHANGED <<moreVars, listVars, formVars, schedVars, serverVars, pageTasks, optimizing, showOptimizeDialog,
                   optimizedSchedule, calendarRefreshCounter, todayTimeBlocks,
                   attempted>>

isToday(b) == b.start_time \div MinutesPerDay = now \div MinutesPerDay

\* fetchTodayTimeBlocks resolved (lines 680-688)
ApplyRefreshResolved ==
    /\ applyPc.at = "refresh"
    /\ calendarRefreshCounter' = calendarRefreshCounter + 1
    /\ todayTimeBlocks' = Len(SelectSeq(serverBlocks, isToday))
    /\ lastToast' = Toast("Schedule Applied", "")
    /\ applyingSchedule' = FALSE
    /\ applyPc' = [applyPc EXCEPT !.at = "idle"]
    /\ UNCHANGED <<moreVars, listVars, formVars, schedVars, serverVars, pageTasks, optimizing, showOptimizeDialog,
                   optimizedSchedule, attempted>>

\* fetchTodayTimeBlocks threw
ApplyRefreshRejected ==
    /\ applyPc.at = "refresh"
    /\ applyFailed
    /\ UNCHANGED <<moreVars, listVars, formVars, schedVars, serverVars, pageTasks, optimizing, showOptimizeDialog,
                   optimizedSchedule, calendarRefreshCounter, todayTimeBlocks,
                   attempted>>

\* Calendar's effect on [token, view, date, refreshFlag] (lines 120-122)
\* after a render with a new refreshFlag: fetchData asks for the events and
\* the time blocks and stores them, or shows an error toast and keeps what
\* it held
CalendarFetchData ==
    /\ calendarFetchedFlag # calendarRefreshCounter
    /\ calendarFetchedFlag' = calendarRefreshCounter
    /\ \/ /\ calendarEvents' = Len(serverEvents)
          /\ calendarTimeBlocks' = Len(serverBlocks)
       \/ UNCHANGED <<calendarEvents, calendarTimeBlocks>>
    /\ UNCHANGED <<schedVars, serverVars, pageVars, listVars, formVars, prioVars, authVars,
                   lateVars>>

-----------------------------------------------------------------------------
\* TimeBlockModal and the other writers of the calendar

\* formData.start_time >= formData.end_time is the rejected case
timeRangeValid(start, end) == ~(start >= end)

\* The modals belong to the Calendar component; CalendarPage's state, and the
\* toast CalendarPage showed last, are not touched by them.
pageUnchangedByModal ==
    UNCHANGED <<moreVars, listVars, formVars, schedVars, pageTasks, optimizing, showOptimizeDialog,
                optimizedSchedule, applyingSchedule, calendarRefreshCounter,
                todayTimeBlocks, applyPc, attempted, lastToast>>

\* TimeBlockModal.handleSubmit with isCreating. The form is rejected with an
\* error toast, before any request, when no task is chosen (task_id '') or
\* when start_time >= end_time; createTimeBlock may throw; in these cases the
\* store is left as it is.
TimeBlockModalCreate ==
    /\ \/ \E task_id \in 1 .. Len(pageTasks), start \in CalTimes(now), end \in CalTimes(now) :
              /\ timeRangeValid(start, end)
              /\ serverCreateBlock([start_time |-> start, end_time |-> end,
                                    status |-> "scheduled"])
       \/ UNCHANGED serverBlocks
    /\ UNCHANGED serverEvents
    /\ pageUnchangedByModal

\* TimeBlockModal.handleSubmit on an existing block: the same validation,
\* then updateTimeBlock
TimeBlockModalUpdate ==
    /\ \/ \E k \in DOMAIN serverBlocks, start \in CalTimes(now), end \in CalTimes(now),
             status \in BlockStatuses :
              /\ timeRangeValid(start, end)
              /\ serverUpdateBlock(k, [start_time |-> start, end_time |-> end,
                                       status |-> status])
       \/ serverBlocks # <<>> /\ UNCHANGED serverBlocks
    /\ UNCHANGED serverEvents
    /\ pageUnchangedByModal

\* TimeBlockModal.handleDelete
TimeBlockModalDelete ==
    /\ \/ \E k \in DOMAIN serverBlocks : serverBlocks' = RemoveAt(serverBlocks, k)
       \/ serverBlocks # <<>> /\ UNCHANGED serverBlocks
    /\ UNCHANGED serverEvents
    /\ pageUnchangedByModal

\* TaskForm's "Create Time Block" button calls createTimeBlock(data) with one
\* argument: the data object arrives as the token and the body is undefined,
\* so the request carries no time block and the handler shows its error toast.
TaskFormCreateTimeBlock ==
    /\ UNCHANGED serverVars
    /\ pageUnchangedByModal

\* EventModal.handleSubmit with isCreating: rejected before any request when
\* the title is blank or start_time >= end_time; createCalendarEvent may throw
EventModalCreate ==
    /\ \/ \E start \in CalTimes(now), end \in CalTimes(now) :
              /\ timeRangeValid(start, end)
              /\ Len(serverEvents) < MaxEvents
              /\ serverEvents' = Append(serverEvents,
                                        [start_time |-> start, end_time |-> end])
       \/ UNCHANGED serverEvents
    /\ UNCHANGED serverBlocks
    /\ pageUnchangedByModal

ApplyNext ==
    \/ OptimizeScheduleStart
    \/ OptimizeScheduleDone
    \/ CancelOptimizeDialog
    \/ ApplyStart
    \/ ApplyCreateResolved
    \/ ApplyCreateRejected
    \/ ApplyRefreshResolved
    \/ ApplyRefreshRejected
    \/ TimeBlockModalCreate
    \/ TimeBlockModalUpdate
    \/ TimeBlockModalDelete
    \/ TaskFormCreateTimeBlock
    \/ EventModalCreate

SpecApply == ApplyInit /\ [][ApplyNext]_vars

\* CalendarPage with the Calendar inside it: the optimization flow and the
\* effect of Calendar, without the modals
RefreshNext ==
    \/ OptimizeScheduleStart
    \/ OptimizeScheduleDone
    \/ CancelOptimizeDialog
    \/ ApplyStart
    \/ ApplyCreateResolved
    \/ ApplyCreateRejected
    \/ ApplyRefreshResolved
    \/ ApplyRefreshRejected
    \/ CalendarFetchData

\* Requests end (resolved or rejected) and React runs the effects of a
\* render; what the user clicks is not forced.
SpecRefresh ==
    /\ ApplyInit
    /\ [][RefreshNext]_vars
    /\ WF_vars(ApplyCreateResolved \/ ApplyCreateRejected)
    /\ WF_vars(ApplyRefreshResolved \/ ApplyRefreshRejected)
    /\ WF_vars(OptimizeScheduleDone)
    /\ WF_vars(CalendarFetchData)

-----------------------------------------------------------------------------
\* Properties of applying a schedule and of the time-block store

\* C6: applying an optimized schedule creates one time block per entry, and
\* the failure of one entry does not keep the others from being applied: when
\* applyOptimizedSchedule has ended, createTimeBlock was called for every
\* entry of the schedule it was applying.
C6_EveryAssignmentAttempted ==
    (applyPc.at = "idle" /\ applyPc.items # <<>>) => attempted = DOMAIN applyPc.items

C17_ProposalWritesNothing ==
    [][(OptimizeScheduleStart \/ OptimizeScheduleDone \/ CancelOptimizeDialog)
           => UNCHANGED <<serverBlocks, serverEvents, pageTasks>>]_vars

\* a proposal is on show in the dialog, nothing has been applied and the
\* store holds no time block
C17_ProposalShownNothingStored ==
    /\ showOptimizeDialog
    /\ Len(optimizedSchedule) = 2
    /\ ~applyingSchedule
    /\ attempted = {}
    /\ serverBlocks = <<>>

\* C20: once every time block of an applied proposal has been created (the
\* loop of applyOptimizedSchedule is past its last createTimeBlock), the
\* refresh counter is incremented and Calendar runs fetchData for the new
\* counter.
C20_AppliedThenCalendarRefetches ==
    \A n \in 0 .. MaxRefresh :
        (applyPc.at = "refresh" /\ calendarRefreshCounter = n)
            ~> (calendarRefreshCounter > n /\ calendarFetchedFlag > n)

\* C24: across the apply runs of one proposal, a retry after a failed run
\* included, at most one time block is created for each entry: no entry
\* that had its block created has a block created again.
C24_EachEntryCreatedOnce == ~recreated

-----------------------------------------------------------------------------
\* Task list: useTasks (markComplete, bulkUpdate, fetchTasks) and TaskList

TaskStatuses == {"pending", "in_progress", "completed", "cancelled"}

TaskIds == 1 .. MaxTasks

\* the answer of GET /tasks/: every task the store holds, with its status; a
\* deleted task stays in serverTasks under the status "deleted"
fetchedTasks(server) ==
    LET stored(t) == t.status # "deleted"
    IN  SelectSeq([i \in DOMAIN server |-> [id |-> i, status |-> server[i]]], stored)

TasksInit ==
    /\ now = WeekBase + 8 * 60 + 15
    /\ tasks = <<>>
    /\ schedule = <<>>
    /\ schedPc = "idle"
    /\ NoRerun
    /\ ServerStartsEmpty
    /\ PageUnmounted
    /\ serverTasks \in [TaskIds -> TaskStatuses]
    /\ listTasks = fetchedTasks(serverTasks)
    /\ selectedTasks = <<>>
    /\ statusMoves = {}
    /\ listToast = NoToast
    /\ FormsUnmounted
    /\ MoreUnmounted

listUnchangedElsewhere == UNCHANGED <<schedVars, serverVars, pageVars, formVars, moreVars>>

isSelected(id) == \E k \in DOMAIN selectedTasks : selectedTasks[k] = id

isListed(id) == \E k \in DOMAIN listTasks : listTasks[k].id = id

\* selectedTasks.filter(id => id !== taskId)
withoutTask(sel, id) ==
    LET keep(x) == x # id
    IN SelectSeq(sel, keep)

\* the status the list shows for a task
listedStatus(id) == listTasks[CHOOSE k \in DOMAIN listTasks : listTasks[k].id = id].status

\* the status change a request asks for: from the status the list shows
statusMove(id, to) == [id |-> id, from |-> listedStatus(id), to |-> to]

\* TaskList.handleSelectTask(taskId, checked): the row's checkbox shows
\* isSelected, so a click hands over its negation
handleSelectTask(taskId) ==
    /\ \E k \in DOMAIN listTasks : listTasks[k].id = taskId
    /\ selectedTasks' = IF ~isSelected(taskId)
                        THEN Append(selectedTasks, taskId)
                        ELSE withoutTask(selectedTasks, taskId)
    /\ UNCHANGED <<serverTasks, listTasks, statusMoves, listToast>>
    /\ listUnchangedElsewhere

\* TaskList.handleSelectAll(checked)
handleSelectAll(checked) ==
    /\ listTasks # <<>>
    /\ selectedTasks' = IF checked
                        THEN [k \in DOMAIN listTasks |-> listTasks[k].id]
                        ELSE <<>>
    /\ UNCHANGED <<serverTasks, listTasks, statusMoves, listToast>>
    /\ listUnchangedElsewhere

\* TaskItem.handleMarkComplete -> useTasks.markComplete(id) ->
\* POST /tasks/<id>/mark_complete/. The button is rendered for every task
\* whose status is not 'completed'. On success the row is replaced by the
\* returned task; on failure only the error toast is shown.
handleMarkComplete(id) ==
    /\ \E k \in DOMAIN listTasks :
           /\ listTasks[k].id = id
           /\ listTasks[k].status # "completed"
    /\ statusMoves' = statusMoves \cup {statusMove(id, "completed")}
    /\ \/ /\ serverTasks' = [serverTasks EXCEPT ![id] = "completed"]
          /\ listTasks' = [k \in DOMAIN listTasks |->
                              IF listTasks[k].id = id
                              THEN [id |-> id, status |-> "completed"]
                              ELSE listTasks[k]]
          /\ listToast' = Toast("Task completed", "")
       \/ /\ listToast' = Toast("Error", "destructive")
          /\ UNCHANGED <<serverTasks, listTasks>>
    /\ UNCHANGED selectedTasks
    /\ listUnchangedElsewhere

\* TaskList.handleBulkMarkComplete -> useTasks.bulkUpdate(selectedTasks,
\* { status: 'completed' }) -> POST /bulk-update/, then fetchTasks. The bar
\* with the button is rendered while selectedTasks is not empty. fetchTasks
\* catches its own failure, which leaves the list as it was.
handleBulkMarkComplete ==
    /\ Len(selectedTasks) > 0
    /\ statusMoves' = statusMoves \cup
           {statusMove(id, "completed") :
                id \in {x \in DOMAIN serverTasks : isSelected(x) /\ isListed(x)}}
    /\ \/ /\ serverTasks' = [id \in DOMAIN serverTasks |->
                                IF isSelected(id) /\ serverTasks[id] # "deleted"
                                THEN "completed"
                                ELSE serverTasks[id]]
          /\ \/ listTasks' = fetchedTasks(serverTasks')
             \/ UNCHANGED listTasks
          /\ selectedTasks' = <<>>
          /\ listToast' = Toast("Tasks updated", "")
       \/ /\ listToast' = Toast("Error", "destructive")
          /\ UNCHANGED <<serverTasks, listTasks, selectedTasks>>
    /\ listUnchangedElsewhere

TasksNext ==
    \/ \E taskId \in TaskIds : handleSelectTask(taskId)
    \/ \E checked \in BOOLEAN : handleSelectAll(checked)
    \/ \E id \in TaskIds : handleMarkComplete(id)
    \/ handleBulkMarkComplete

SpecTasks == TasksInit /\ [][TasksNext]_vars

\* tasks.filter(task => task.id !== id), and with the ids of a bulk delete
withoutListed(ts, ids) ==
    LET keep(t) == t.id \notin ids
    IN  SelectSeq(ts, keep)

selectedIds == {selectedTasks[k] : k \in DOMAIN selectedTasks}

\* TaskItem.handleDelete -> useTasks.deleteTask(id) (lines 65-72), after the
\* confirm dialog: on success the row leaves tasks; selectedTasks is not
\* touched. On failure the error toast is shown.
handleDelete(id) ==
    /\ isListed(id)
    /\ \/ /\ serverTasks' = [serverTasks EXCEPT ![id] = "deleted"]
          /\ listTasks' = withoutListed(listTasks, {id})
          /\ listToast' = Toast("Task deleted", "")
       \/ /\ listToast' = Toast("Error", "destructive")
          /\ UNCHANGED <<serverTasks, listTasks>>
    /\ UNCHANGED <<selectedTasks, statusMoves>>
    /\ listUnchangedElsewhere

\* TaskList.handleBulkDelete -> useTasks.bulkDelete(selectedTasks), after
\* the confirm dialog: the rows leave tasks and the selection is emptied
handleBulkDelete ==
    /\ Len(selectedTasks) > 0
    /\ \/ /\ serverTasks' = [id \in DOMAIN serverTasks |->
                                IF isSelected(id) THEN "deleted" ELSE serverTasks[id]]
          /\ listTasks' = withoutListed(listTasks, selectedIds)
          /\ selectedTasks' = <<>>
          /\ listToast' = Toast("Tasks deleted", "")
       \/ /\ listToast' = Toast("Error", "destructive")
          /\ UNCHANGED <<serverTasks, listTasks, selectedTasks>>
    /\ UNCHANGED statusMoves
    /\ listUnchangedElsewhere

\* the status filter of the list: '' asks for every task
StatusFilters == TaskStatuses \cup {""}

\* handleFilterChange('status', value) or refresh: updateFilters changes
\* fetchTasks, the effect of useTasks calls it and its answer replaces
\* tasks; a failed fetch leaves the list as it was
handleFilterChange(value) ==
    /\ \/ LET wanted(t) == value = "" \/ t.status = value
          IN  listTasks' = SelectSeq(fetchedTasks(serverTasks), wanted)
       \/ UNCHANGED listTasks
    /\ UNCHANGED <<serverTasks, selectedTasks, statusMoves, listToast>>
    /\ listUnchangedElsewhere

SelectNext ==
    \/ \E taskId \in TaskIds : handleSelectTask(taskId)
    \/ \E checked \in BOOLEAN : handleSelectAll(checked)
    \/ \E id \in TaskIds : handleMarkComplete(id)
    \/ handleBulkMarkComplete
    \/ \E id \in TaskIds : handleDelete(id)
    \/ handleBulkDelete
    \/ \E value \in StatusFilters : handleFilterChange(value)

SpecSelect == TasksInit /\ [][SelectNext]_vars

\* C27: selectedTasks is a duplicate-free subset of the ids of the tasks
\* the list holds: no id of a task that left the list (deleted, or no longer
\* in the fetched list) is selected.
C27_SelectionWithinList ==
    /\ \A i, j \in DOMAIN selectedTasks : i # j => selectedTasks[i] # selectedTasks[j]
    /\ \A k \in DOMAIN selectedTasks : isListed(selectedTasks[k])

\* C8: every status change the task list requests follows
\* pending -> in_progress -> completed (cancelled reachable from any status
\* but completed): no single or bulk mark-complete moves a task to completed
\* from pending or from cancelled.
C8_CompletedOnlyFromInProgress ==
    \A m \in statusMoves :
        m.to = "completed" => m.from \notin {"pending", "cancelled"}

-----------------------------------------------------------------------------
\* Input forms: TaskForm, ContextInput, TimeBlockModal, EventModal.
\* In this part now is an instant in minutes of UTC; WeekBase is
\* 2024-01-08T00:00Z and local time is UTC + tzOffset.

\* longest text typed into a text field
MaxTextLen == 2

\* most requests kept in apiCalls
MaxCalls == 1

Chars == {" ", "x"}

Texts == UNION {[1 .. n -> Chars] : n \in 0 .. MaxTextLen}

RECURSIVE trimStart(_)
trimStart(s) == IF s # <<>> /\ Head(s) = " " THEN trimStart(Tail(s)) ELSE s

RECURSIVE trimEnd(_)
trimEnd(s) ==
    IF s # <<>> /\ s[Len(s)] = " " THEN trimEnd(SubSeq(s, 1, Len(s) - 1)) ELSE s

\* String.prototype.trim
trim(s) == trimEnd(trimStart(s))

\* local time zones the browser may run in: UTC and UTC-05:00
TimezoneOffsets == {0, 0 - 300}

\* what the title field may hold
TitleInputs == {<<>>, <<" ">>, <<"x">>}

\* what the deadline field may hold: nothing, today, tomorrow, and text that
\* is no date
DeadlineInputs == {"", "2024-01-08", "2024-01-09", "2024-13-45"}

\* what the estimated_duration field may hold
DurationInputs == {"", "0", "-5", "30"}

NaN == [nan |-> TRUE, t |-> 0]

DateAt(t) == [nan |-> FALSE, t |-> t]

\* new Date(string) for a date-only string: midnight UTC of that day, or an
\* Invalid Date
parseDate(str) ==
    CASE str = "2024-01-08" -> DateAt(WeekBase)
      [] str = "2024-01-09" -> DateAt(WeekBase + MinutesPerDay)
      [] OTHER -> NaN

\* a <= b on two Dates: false as soon as one of them is invalid
dateLessOrEqual(a, b) == ~a.nan /\ ~b.nan /\ a.t <= b.t

\* the number a string of the duration field converts to (in <= and parseInt)
toNumber(str) ==
    CASE str = "0" -> 0
      [] str = "-5" -> 0 - 5
      [] str = "30" -> 30

\* the times the datetime-local fields and the modals' pickers are set to
FormTimes == {WeekBase + 4 * 60 + 30, WeekBase + 5 * 60 + 30}

\* instants <<start, end>> an AI suggestion may carry
SuggestedSlots == {<<WeekBase + 4 * 60 + 30, WeekBase + 5 * 60 + 30>>}

\* toISOString().split('T')[0]: the day of the instant in UTC
isoDate(t) == t \div MinutesPerDay

\* toTimeString().substring(0, 5): the time of day of the instant in local time
localTimeOfDay(t) == (t + tzOffset) % MinutesPerDay

\* `${isoDate}T${localTime}` read as a datetime-local value
suggestionFieldValue(t) == isoDate(t) * MinutesPerDay + localTimeOfDay(t)

\* toISOString().slice(0, 16) read as a datetime-local value
isoFieldValue(t) == t

FormFields ==
    {"title", "deadline", "estimated_duration", "scheduled_start_time",
     "scheduled_end_time"}

FieldInputs(field) ==
    CASE field = "title" -> TitleInputs
      [] field = "deadline" -> DeadlineInputs
      [] field = "estimated_duration" -> DurationInputs
      [] OTHER -> FormTimes \cup {Null}

\* one request of a form: the API called and the validated part of its body
ApiCall(api, text, deadline, estimated_duration, start, end) ==
    [api |-> api, text |-> text, deadline |-> deadline,
     estimated_duration |-> estimated_duration, start_time |-> start,
     end_time |-> end]

FormsInit ==
    /\ now = WeekBase + 12 * 60
    /\ tasks = <<>>
    /\ schedule = <<>>
    /\ schedPc = "idle"
    /\ NoRerun
    /\ ServerStartsEmpty
    /\ PageUnmounted
    /\ ListUnmounted
    /\ tzOffset \in TimezoneOffsets
    /\ formData = EmptyForm
    /\ errors = {}
    /\ apiCalls = <<>>
    /\ formToast = NoToast
    /\ lastAnalysis = "null"
    /\ contextError = FALSE
    /\ MoreUnmounted

\* the forms are followed until MaxCalls requests were sent
withinMaxCalls == Len(apiCalls) < MaxCalls

formsUnchangedElsewhere ==
    UNCHANGED <<schedVars, serverVars, pageVars, listVars, moreVars, tzOffset>>

\* ContextInput and useContextAnalysis are left alone by the other forms
contextUnchanged == UNCHANGED <<lastAnalysis, contextError>>

\* TaskForm.handleInputChange(field, value): sets the field and clears its error
handleInputChange(field, value) ==
    /\ withinMaxCalls
    /\ contextUnchanged
    /\ formData' = [formData EXCEPT ![field] = value]
    /\ errors' = errors \ {field}
    /\ UNCHANGED <<apiCalls, formToast>>
    /\ formsUnchangedElsewhere

\* TaskForm.applyAISuggestion('scheduling', aiSuggestions) (lines 351-377)
applyAISuggestion(slot) ==
    /\ withinMaxCalls
    /\ contextUnchanged
    /\ formData' = [formData EXCEPT
                        !.scheduled_start_time = suggestionFieldValue(slot[1]),
                        !.scheduled_end_time = suggestionFieldValue(slot[2])]
    /\ formToast' = Toast("Schedule Applied", "")
    /\ UNCHANGED <<errors, apiCalls>>
    /\ formsUnchangedElsewhere

\* TaskForm's "AI Schedule" button (lines 666-715): getSchedulingSuggestions
\* answers with a slot, or throws
aiScheduleButton ==
    /\ withinMaxCalls
    /\ contextUnchanged
    /\ \/ \E slot \in SuggestedSlots :
              /\ formData' = [formData EXCEPT
                                  !.scheduled_start_time = isoFieldValue(slot[1]),
                                  !.scheduled_end_time = isoFieldValue(slot[2])]
              /\ formToast' = Toast("AI Scheduling", "")
       \/ /\ formToast' = Toast("Error", "destructive")
          /\ UNCHANGED formData
    /\ UNCHANGED <<errors, apiCalls>>
    /\ formsUnchangedElsewhere

\* TaskForm.validateForm: the fields it puts in newErrors
validateForm(fd) ==
    {f \in {"title"} : trim(fd.title) = <<>>}
    \cup {f \in {"deadline"} :
              fd.deadline # "" /\ dateLessOrEqual(parseDate(fd.deadline), DateAt(now))}
    \cup {f \in {"estimated_duration"} :
              fd.estimated_duration # "" /\ toNumber(fd.estimated_duration) <= 0}

\* the taskData that handleSubmit builds from formData (lines 294-300)
taskData(fd) ==
    ApiCall("createTask", fd.title, fd.deadline,
            IF fd.estimated_duration # "" THEN toNumber(fd.estimated_duration) ELSE Null,
            fd.scheduled_start_time, fd.scheduled_end_time)

\* TaskForm.handleSubmit when creating: nothing is sent when validateForm
\* finds an error; else createTask is called, and the form is left on
\* success (navigate) or stays with an error toast on failure
handleSubmit ==
    /\ withinMaxCalls
    /\ contextUnchanged
    /\ errors' = validateForm(formData)
    /\ IF validateForm(formData) # {}
       THEN UNCHANGED <<formData, apiCalls, formToast>>
       ELSE /\ apiCalls' = Append(apiCalls, taskData(formData))
            /\ \/ /\ formToast' = Toast("Task created", "")
                  /\ formData' = EmptyForm
               \/ /\ formToast' = Toast("Error", "destructive")
                  /\ UNCHANGED formData
    /\ formsUnchangedElsewhere

\* ContextInput.handleSubmit (LoginPage.jsx lines 372-408) with the content
\* typed into the form. Blank content is refused before any request. Else
\* useContextAnalysis.analyzeAndCreateContext runs: createContextEntry, then
\* apiService.analyzeContext (POST /ai/analyze-context/); when either request
\* fails it sets its error state and throws, and handleSubmit's catch block
\* shows the error toast; when both answer, lastAnalysis is set.
contextHandleSubmit(content) ==
    /\ withinMaxCalls
    /\ IF trim(content) = <<>>
       THEN /\ formToast' = Toast("Error", "destructive")
            /\ UNCHANGED <<apiCalls, lastAnalysis, contextError>>
       ELSE /\ apiCalls' = Append(apiCalls,
                                  ApiCall("analyzeAndCreateContext", content, "", Null,
                                          Null, Null))
            /\ \/ /\ lastAnalysis' = "analysis"
                  /\ contextError' = FALSE
                  /\ formToast' = Toast("Context analyzed", "")
               \/ /\ contextError' = TRUE
                  /\ formToast' = Toast("Error", "destructive")
                  /\ UNCHANGED lastAnalysis
    /\ UNCHANGED <<formData, errors>>
    /\ formsUnchangedElsewhere

\* TimeBlockModal.handleSubmit with isCreating: the checks before the request
\* (task chosen, then start before end), then createTimeBlock
timeBlockHandleSubmit(hasTask, start, end) ==
    /\ withinMaxCalls
    /\ contextUnchanged
    /\ IF ~hasTask \/ ~timeRangeValid(start, end)
       THEN /\ formToast' = Toast("Error", "destructive")
            /\ UNCHANGED apiCalls
       ELSE /\ apiCalls' = Append(apiCalls,
                                  ApiCall("createTimeBlock", <<>>, "", Null, start, end))
            /\ formToast' \in {Toast("Success", ""), Toast("Error", "destructive")}
    /\ UNCHANGED <<formData, errors>>
    /\ formsUnchangedElsewhere

\* EventModal.handleSubmit with isCreating: the checks before the request
\* (title not blank, then start before end), then createCalendarEvent
eventHandleSubmit(title, start, end) ==
    /\ withinMaxCalls
    /\ contextUnchanged
    /\ IF trim(title) = <<>> \/ ~timeRangeValid(start, end)
       THEN /\ formToast' = Toast("Error", "destructive")
            /\ UNCHANGED apiCalls
       ELSE /\ apiCalls' = Append(apiCalls,
                                  ApiCall("createCalendarEvent", title, "", Null, start, end))
            /\ formToast' \in {Toast("Success", ""), Toast("Error", "destructive")}
    /\ UNCHANGED <<formData, errors>>
    /\ formsUnchangedElsewhere

FormsNext ==
    \/ \E field \in FormFields : \E value \in FieldInputs(field) :
           handleInputChange(field, value)
    \/ \E slot \in SuggestedSlots : applyAISuggestion(slot)
    \/ aiScheduleButton
    \/ handleSubmit
    \/ \E content \in Texts : contextHandleSubmit(content)
    \/ \E hasTask \in BOOLEAN, start \in FormTimes, end \in FormTimes :
           timeBlockHandleSubmit(hasTask, start, end)
    \/ \E title \in Texts, start \in FormTimes, end \in FormTimes :
           eventHandleSubmit(title, start, end)

SpecForms == FormsInit /\ [][FormsNext]_vars

\* C9: whenever a task is saved with both scheduled times set (typed by the
\* user or filled in from an AI suggestion), scheduled_end_time is strictly
\* later than scheduled_start_time: a form with end <= start is never sent.
C9_ScheduledEndAfterStart ==
    \A k \in DOMAIN apiCalls :
        (/\ apiCalls[k].api = "createTask"
         /\ apiCalls[k].start_time # Null
         /\ apiCalls[k].end_time # Null)
            => apiCalls[k].end_time > apiCalls[k].start_time

\* C11: a failure or timeout of the remote text-analysis call is recovered
\* and never shown to the user as an error: every analyze-context request of
\* ContextInput ends with an analysis result, without an error state.
C11_AnalysisAlwaysYieldsResult ==
    (\E k \in DOMAIN apiCalls : apiCalls[k].api = "analyzeAndCreateContext")
        => (lastAnalysis = "analysis" /\ ~contextError)

-----------------------------------------------------------------------------
\* AI prioritization: useTaskPrioritization, ApiService.getTaskPrioritization
\* and TaskList's use of them. The task list is listTasks (useTasks' tasks).

\* ai_priority_score values of the backend's answer: the ends and the inside
\* of the range 0..100 the design gives, and Null for a task without a score
ServerScores == {Null, 0, 55, 100}

\* the prioritized_tasks arrays the backend may answer with: some or all of
\* the tasks, in any order
PrioritizedLists ==
    UNION {{l \in [1 .. len -> [id : TaskIds, ai_priority_score : ServerScores]] :
               \A i, j \in 1 .. len : i # j => l[i].id # l[j].id} : len \in 0 .. MaxTasks}

\* priorityMap[task.id] (lines 82-88): the entry of the last task with this
\* id, or undefined
hasPriorityInfo(prio, id) == \E k \in DOMAIN prio : prio[k].id = id

priorityInfo(prio, id) ==
    prio[CHOOSE k \in DOMAIN prio :
             prio[k].id = id /\ \A j \in DOMAIN prio : prio[j].id = id => j <= k]

\* a score as the backend sent it, with no default
scoreAsSent(x) == x

\* x || 0 (lines 94 and 102)
scoreOrZero(x) == IF x = Null \/ x = 0 THEN 0 ELSE x

\* lines 91-98: the task with its AI score added
enhancedTask(prio, task) ==
    [id |-> task.id,
     status |-> task.status,
     aiPriorityScore |->
         scoreOrZero(IF hasPriorityInfo(prio, task.id)
                     THEN priorityInfo(prio, task.id).ai_priority_score
                     ELSE Null)]

\* a sort that leaves the list as it is
keptOrder(ts) == ts

\* lines 101-103: sort by descending score; the comparator is consistent, so
\* the order is the stable one
sortedByScore(ts) ==
    LET n == Len(ts)
        p == CHOOSE q \in IndexOrders(n) :
                 \A i, j \in 1 .. n :
                     i < j =>
                         \/ scoreOrZero(ts[q[i]].aiPriorityScore)
                                > scoreOrZero(ts[q[j]].aiPriorityScore)
                         \/ /\ scoreOrZero(ts[q[i]].aiPriorityScore)
                                   = scoreOrZero(ts[q[j]].aiPriorityScore)
                            /\ q[i] < q[j]
    IN  [i \in 1 .. n |-> ts[p[i]]]

\* useTaskPrioritization.applyAIPrioritization(tasks), with the state it
\* closes over as arguments. Both early returns hand the list back as it is:
\* its tasks carry no aiPriorityScore.
applyAIPrioritization(ts, prio, enabled) ==
    IF ts = <<>> THEN ts
    ELSE IF ~enabled \/ prio = <<>> THEN ts
    ELSE sortedByScore([k \in DOMAIN ts |-> enhancedTask(prio, ts[k])])

\* TaskList's effect on [tasks, prioritizedTasks, aiPrioritizationEnabled]
\* (lines 272-279)
prioritizedTasksDataOf(ts, prio, enabled) ==
    IF ts # <<>> /\ enabled THEN applyAIPrioritization(ts, prio, enabled) ELSE ts

\* ApiService.getTaskPrioritization as written at lines 379-391: the query
\* carries refresh_context=true when options.refresh_context is set
getTaskPrioritizationFirst(options) == options.refresh_context

\* ApiService.getTaskPrioritization as written again at lines 453-455: no
\* parameter, no query
getTaskPrioritizationSecond(options) == FALSE

\* A class body that defines a method twice keeps the later definition.
\* The value is whether the request carries refresh_context=true.
getTaskPrioritization(options) == getTaskPrioritizationSecond(options)

PrioInit ==
    /\ now = WeekBase + 8 * 60 + 15
    /\ tasks = <<>>
    /\ schedule = <<>>
    /\ schedPc = "idle"
    /\ NoRerun
    /\ ServerStartsEmpty
    /\ PageUnmounted
    /\ serverTasks \in [TaskIds -> {"pending", "in_progress"}]
    /\ listTasks = fetchedTasks(serverTasks)
    /\ selectedTasks = <<>>
    /\ statusMoves = {}
    /\ listToast = NoToast
    /\ FormsUnmounted
    /\ prioritizedTasks = <<>>
    /\ aiPrioritizationEnabled = TRUE
    /\ prioritizedTasksData = fetchedTasks(serverTasks)
    /\ prioRequests = {}
    /\ prioToast = NoToast
    /\ AuthUnmounted
    /\ CalUnmounted
    /\ LateUnmounted

prioUnchangedElsewhere ==
    UNCHANGED <<schedVars, serverVars, pageVars, formVars, listVars, authVars, calVars,
                lateVars>>

prioRequest(origin, options) ==
    [origin |-> origin,
     asked |-> options.refresh_context,
     sent |-> getTaskPrioritization(options)]

\* useTaskPrioritization.fetchPrioritizedTasks(options) up to its answer:
\* the request is sent; the answer sets the hook's state, and TaskList's
\* effect recomputes prioritizedTasksData; a failure leaves them as they were
fetchPrioritizedTasks(origin, options) ==
    /\ prioRequests' = prioRequests \cup {prioRequest(origin, options)}
    /\ \/ \E prio \in PrioritizedLists, enabled \in BOOLEAN :
              /\ prioritizedTasks' = prio
              /\ aiPrioritizationEnabled' = enabled
              /\ prioritizedTasksData' = prioritizedTasksDataOf(listTasks, prio, enabled)
       \/ UNCHANGED <<prioritizedTasks, aiPrioritizationEnabled, prioritizedTasksData>>

\* the fetches at mount: the hook's effect (line 107) and TaskList's effect
\* (lines 282-284) call fetchPrioritizedTasks() without options
FetchPrioritizedTasksAtMount ==
    /\ fetchPrioritizedTasks("mount", [refresh_context |-> FALSE])
    /\ UNCHANGED prioToast
    /\ prioUnchangedElsewhere

\* TaskList.reprioritizeAllTasks ("Re-prioritize All Tasks", lines 350-377):
\* fetchPrioritizedTasks({ refresh_context: true }), refresh(), then
\* applyAIPrioritization(tasks) of the render the click belongs to; the
\* effect runs again with the new state. A failed fetch ends in the catch block.
ReprioritizeAllTasks ==
    /\ prioRequests' = prioRequests \cup {prioRequest("reprioritize", [refresh_context |-> TRUE])}
    /\ \/ \E prio \in PrioritizedLists, enabled \in BOOLEAN :
              /\ prioritizedTasks' = prio
              /\ aiPrioritizationEnabled' = enabled
              /\ prioritizedTasksData' \in
                     {prioritizedTasksDataOf(listTasks, prio, enabled),
                      applyAIPrioritization(listTasks, prioritizedTasks,
                                            aiPrioritizationEnabled)}
              /\ prioToast' = Toast("Tasks dynamically reprioritized", "")
       \/ /\ prioToast' = Toast("Error", "destructive")
          /\ UNCHANGED <<prioritizedTasks, aiPrioritizationEnabled, prioritizedTasksData>>
    /\ prioUnchangedElsewhere

PrioNext ==
    \/ FetchPrioritizedTasksAtMount
    \/ ReprioritizeAllTasks

SpecPrio == PrioInit /\ [][PrioNext]_vars

appliedNow == applyAIPrioritization(listTasks, prioritizedTasks, aiPrioritizationEnabled)

\* C22: applyAIPrioritization returns the tasks it was given, none added,
\* dropped or duplicated; each carries the score of the prioritized entry
\* with its id (0 when there is none, or when the entry has no score); the
\* result is in non-increasing order of aiPriorityScore; with prioritization
\* disabled or no prioritized task loaded the input is returned as it is.
C22_PermutationAnnotatedAndSorted ==
    IF ~aiPrioritizationEnabled \/ prioritizedTasks = <<>>
    THEN appliedNow = listTasks
    ELSE /\ Len(appliedNow) = Len(listTasks)
         /\ \A t \in DOMAIN listTasks :
                Cardinality({k \in DOMAIN appliedNow : appliedNow[k].id = listTasks[t].id}) = 1
         /\ \A k \in DOMAIN appliedNow :
                /\ \A j \in DOMAIN prioritizedTasks :
                       prioritizedTasks[j].id = appliedNow[k].id =>
                           appliedNow[k].aiPriorityScore =
                               IF prioritizedTasks[j].ai_priority_score = Null
                               THEN 0
                               ELSE prioritizedTasks[j].ai_priority_score
                /\ (\A j \in DOMAIN prioritizedTasks :
                        prioritizedTasks[j].id # appliedNow[k].id)
                       => appliedNow[k].aiPriorityScore = 0
         /\ \A i, j \in DOMAIN appliedNow :
                i < j => appliedNow[i].aiPriorityScore >= appliedNow[j].aiPriorityScore

\* the list on show is the result of applyAIPrioritization and the task
\* listed second, which has the higher score, was moved to the front
C22_HigherScoreMovedToFront ==
    /\ aiPrioritizationEnabled
    /\ prioritizedTasks # <<>>
    /\ prioritizedTasksData = appliedNow
    /\ Len(listTasks) = 2
    /\ appliedNow[1].id = listTasks[2].id
    /\ appliedNow[1].aiPriorityScore > appliedNow[2].aiPriorityScore

\* C18: a prioritization request carries refresh_context=true exactly when
\* its caller asked for it: the request of "Re-prioritize All Tasks" carries
\* it, the fetches at mount do not.
C18_RefreshContextAsAsked ==
    \A r \in prioRequests : r.sent = r.asked

-----------------------------------------------------------------------------
\* Authentication and route guards: AuthProvider (hooks/useAuth), ApiService
\* (login, logout, getUserProfile) and App's ProtectedRoute / PublicRoute.

ProtectedPaths ==
    {"/dashboard", "/tasks", "/context", "/analytics", "/calendar", "/settings"}

RoutePaths == ProtectedPaths \cup {"/login"}

\* AuthProvider's token (lines 133-135) and isAuthenticated (line 146) for a
\* user and a localStorage
isAuthenticatedOf(u, authToken, userData) == u \/ authToken \/ userData

isAuthenticated == isAuthenticatedOf(user, storedAuthToken, storedUserData)

\* a guard that lets everyone in
OpenRoute(path, loading, authenticated) == [path |-> path, view |-> "content"]

\* What the router settles on for a location: PublicRoute around /login,
\* ProtectedRoute around every other route; a <Navigate> is followed.
RenderRoute(path, loading, authenticated) ==
    IF loading THEN [path |-> path, view |-> "spinner"]
    ELSE IF path = "/login"
         THEN IF authenticated
              THEN [path |-> "/dashboard", view |-> "content"]
              ELSE [path |-> "/login", view |-> "loginPage"]
    ELSE IF authenticated
         THEN [path |-> path, view |-> "content"]
         ELSE [path |-> "/login", view |-> "loginPage"]

\* the render that follows a state update of AuthProvider or a navigation
Rendered(path) ==
    LET r == RenderRoute(path, authLoading',
                         isAuthenticatedOf(user', storedAuthToken', storedUserData'))
    IN  /\ routePath' = r.path
        /\ routeView' = r.view

\* the page is opened at some location, with what an earlier session left in
\* localStorage; the first render has loading = true
AuthInit ==
    /\ now = WeekBase + 8 * 60 + 15
    /\ tasks = <<>>
    /\ schedule = <<>>
    /\ schedPc = "idle"
    /\ NoRerun
    /\ ServerStartsEmpty
    /\ PageUnmounted
    /\ ListUnmounted
    /\ FormsUnmounted
    /\ PrioUnmounted
    /\ CalUnmounted
    /\ LateUnmounted
    /\ user = FALSE
    /\ authLoading = TRUE
    /\ authError = FALSE
    /\ storedAuthToken \in BOOLEAN
    /\ storedUserData \in BOOLEAN
    /\ memToken = (storedUserData \/ storedAuthToken)
    /\ authPc = "mounting"
    /\ profileRequest = "none"
    /\ routePath \in RoutePaths
    /\ routeView = RenderRoute(routePath, TRUE, FALSE).view

authUnchangedElsewhere ==
    UNCHANGED <<schedVars, serverVars, pageVars, listVars, formVars, prioVars, calVars,
                lateVars>>

\* AuthProvider's effect at mount (lines 104-128): with an authToken the user
\* is set from userData, or as { token } while fetchUserProfile asks the
\* backend; loading ends
AuthMount ==
    /\ authPc = "mounting"
    /\ authPc' = "idle"
    /\ authLoading' = FALSE
    /\ IF storedAuthToken
       THEN /\ user' = TRUE
            /\ profileRequest' = IF storedUserData THEN "none" ELSE "pending"
       ELSE UNCHANGED <<user, profileRequest>>
    /\ UNCHANGED <<authError, storedAuthToken, storedUserData, memToken>>
    /\ Rendered(routePath)
    /\ authUnchangedElsewhere

\* login(username, password) up to its await (lines 24-30)
LoginStart ==
    /\ authPc = "idle"
    /\ routeView = "loginPage"
    /\ authPc' = "login"
    /\ authLoading' = TRUE
    /\ authError' = FALSE
    /\ UNCHANGED <<user, storedAuthToken, storedUserData, memToken, profileRequest>>
    /\ Rendered(routePath)
    /\ authUnchangedElsewhere

\* apiService.login answered with a token: setToken and userData are stored,
\* getUserProfile returns the stored userData, the user is set
LoginResolved ==
    /\ authPc = "login"
    /\ authPc' = "idle"
    /\ storedAuthToken' = TRUE
    /\ storedUserData' = TRUE
    /\ memToken' = TRUE
    /\ user' = TRUE
    /\ authLoading' = FALSE
    /\ UNCHANGED <<authError, profileRequest>>
    /\ Rendered(routePath)
    /\ authUnchangedElsewhere

\* apiService.login threw (lines 50-55)
LoginRejected ==
    /\ authPc = "login"
    /\ authPc' = "idle"
    /\ authError' = TRUE
    /\ authLoading' = FALSE
    /\ UNCHANGED <<user, storedAuthToken, storedUserData, memToken, profileRequest>>
    /\ Rendered(routePath)
    /\ authUnchangedElsewhere

\* logout() (lines 59-63) from the layout of a protected route:
\* apiService.logout removes authToken and userData
Logout ==
    /\ authPc = "idle"
    /\ routeView = "content"
    /\ storedAuthToken' = FALSE
    /\ storedUserData' = FALSE
    /\ memToken' = FALSE
    /\ user' = FALSE
    /\ authError' = FALSE
    /\ UNCHANGED <<authLoading, authPc, profileRequest>>
    /\ Rendered(routePath)
    /\ authUnchangedElsewhere

\* GET /auth/user/ of fetchUserProfile ended. The token was read when the
\* request began. An answer is stored as userData with that token; a failure
\* falls back to the stored userData or to { username: 'user', token }. In
\* both cases the profile has a username and the user is set.
ProfileResolved ==
    /\ profileRequest = "pending"
    /\ profileRequest' = "none"
    /\ \/ storedUserData' = TRUE
       \/ UNCHANGED storedUserData
    /\ user' = TRUE
    /\ UNCHANGED <<authLoading, authError, storedAuthToken, memToken, authPc>>
    /\ Rendered(routePath)
    /\ authUnchangedElsewhere

\* refreshProfile (fetchUserProfile) called from a protected page: without
\* any token getUserProfile returns null and the catch block clears the user
\* unless an authToken is stored; with userData stored it is returned at
\* once; else the backend is asked
RefreshProfile ==
    /\ authPc = "idle"
    /\ routeView = "content"
    /\ profileRequest = "none"
    /\ IF ~(memToken \/ storedUserData \/ storedAuthToken)
       THEN /\ user' = FALSE
            /\ UNCHANGED profileRequest
       ELSE IF storedUserData
            THEN /\ user' = TRUE
                 /\ UNCHANGED profileRequest
            ELSE /\ profileRequest' = "pending"
                 /\ UNCHANGED user
    /\ UNCHANGED <<authLoading, authError, storedAuthToken, storedUserData, memToken, authPc>>
    /\ Rendered(routePath)
    /\ authUnchangedElsewhere

\* the user follows a link or types a location
NavigateTo(path) ==
    /\ authPc # "mounting"
    /\ path # routePath
    /\ UNCHANGED <<user, authLoading, authError, storedAuthToken, storedUserData, memToken,
                   authPc, profileRequest>>
    /\ Rendered(path)
    /\ authUnchangedElsewhere

AuthNext ==
    \/ AuthMount
    \/ LoginStart
    \/ LoginResolved
    \/ LoginRejected
    \/ Logout
    \/ ProfileResolved
    \/ RefreshProfile
    \/ \E path \in RoutePaths : NavigateTo(path)

SpecAuth == AuthInit /\ [][AuthNext]_vars

C23_LoggedOutUntilLogin ==
    [][(~isAuthenticated /\ authPc # "login") => ~isAuthenticated']_vars

-----------------------------------------------------------------------------
\* getSchedulingSuggestions (aiSchedulingService, lines 13-69), called by
\* the "AI Schedule" button of TaskForm with the form's field values.

\* values of the form's number input for the duration
SuggestDurationInputs == {"", "30", "480", "999999999999"}

\* parseInt(taskData.estimated_duration) for the inputs whose end time is a
\* valid Date; "" is falsy and never parsed (0 stands for it)
parseIntMinutes(str) ==
    CASE str = "" -> 0
      [] str = "30" -> 30
      [] str = "480" -> 480

\* Date.prototype.setMinutes clips a time value beyond 8.64e15 ms (1.44e11
\* minutes) from the epoch to NaN: the Date becomes an Invalid Date
endTimeInvalid(str) == str = "999999999999"

SuggestTasks(n) ==
    [priority : Priorities,
     deadline : {Null} \cup {n + o : o \in DeadlineOffsets},
     estimated_duration : SuggestDurationInputs]

Resolved(from, start, end, confidence) ==
    [state |-> "resolved", from |-> from, suggested_start_time |-> start,
     suggested_end_time |-> end, confidence_score |-> confidence]

Rejected == [state |-> "rejected"]

\* confidence_score 0.7 of the fallback, in tenths
LocalConfidence == 7

\* The catch block (lines 63-68): generateLocalSchedulingSuggestions runs
\* inside the async function, so what it returns resolves the promise and
\* what it throws rejects it. With an Invalid Date as end time every
\* comparison on it is false, the start stays valid and
\* suggestedEndTime.toISOString() throws a RangeError.
localFallback(task, n) ==
    IF endTimeInvalid(task.estimated_duration)
    THEN Rejected
    ELSE LET sug == generateLocalSchedulingSuggestions(
                        [priority |-> task.priority, deadline |-> task.deadline,
                         estimated_duration |-> parseIntMinutes(task.estimated_duration)],
                        n)
         IN  Resolved("local", sug.suggested_start_time, sug.suggested_end_time,
                      LocalConfidence)

SuggestInit ==
    /\ now \in NowValues
    /\ tasks = <<>>
    /\ schedule = <<>>
    /\ schedPc = "idle"
    /\ NoRerun
    /\ ServerStartsEmpty
    /\ PageUnmounted
    /\ ListUnmounted
    /\ FormsUnmounted
    /\ PrioUnmounted
    /\ AuthUnmounted
    /\ CalUnmounted
    /\ NothingApplied
    /\ FetchUnmounted
    /\ ContextUnmounted
    /\ sugTask \in SuggestTasks(now)
    /\ sugPc = "idle"
    /\ sugFailed = ""
    /\ sugOutcome = Pending

sugUnchangedElsewhere ==
    UNCHANGED <<schedVars, serverVars, pageVars, listVars, formVars, prioVars, authVars,
                calVars, applyHistVars, fetchVars, ctxVars>>

\* the call up to its first await: Promise.all of fetchCalendarEvents and
\* fetchTimeBlocks
SuggestStart ==
    /\ sugPc = "idle"
    /\ sugPc' = "fetching"
    /\ UNCHANGED <<sugTask, sugFailed, sugOutcome>>
    /\ sugUnchangedElsewhere

\* both fetches answered: the POST to /ai-scheduling-suggestions/ is sent
SuggestFetchResolved ==
    /\ sugPc = "fetching"
    /\ sugPc' = "requesting"
    /\ UNCHANGED <<sugTask, sugFailed, sugOutcome>>
    /\ sugUnchangedElsewhere

\* fetchCalendarEvents or fetchTimeBlocks threw (request failed or non-OK)
SuggestFetchRejected ==
    /\ sugPc = "fetching"
    /\ sugPc' = "settled"
    /\ sugFailed' = "fetch"
    /\ sugOutcome' = localFallback(sugTask, now)
    /\ UNCHANGED sugTask
    /\ sugUnchangedElsewhere

\* the scheduling request was answered OK: its JSON is returned
SuggestRequestResolved ==
    /\ sugPc = "requesting"
    /\ sugPc' = "settled"
    /\ \E slot \in SuggestedSlots, confidence \in {LocalConfidence, 9} :
           sugOutcome' = Resolved("backend", slot[1], slot[2], confidence)
    /\ UNCHANGED <<sugTask, sugFailed>>
    /\ sugUnchangedElsewhere

\* fetch threw, or the answer was not OK (line 58)
SuggestRequestRejected ==
    /\ sugPc = "requesting"
    /\ sugPc' = "settled"
    /\ sugFailed' = "request"
    /\ sugOutcome' = localFallback(sugTask, now)
    /\ UNCHANGED sugTask
    /\ sugUnchangedElsewhere

SuggestNext ==
    \/ SuggestStart
    \/ SuggestFetchResolved
    \/ SuggestFetchRejected
    \/ SuggestRequestResolved
    \/ SuggestRequestRejected

SpecSuggest == SuggestInit /\ [][SuggestNext]_vars

\* C21: getSchedulingSuggestions never fails its caller: when a fetch or the
\* scheduling request failed, the promise resolves with the locally generated
\* suggestion (confidence_score 0.7); it is never rejected.
C21_FallbackInsteadOfRejecting ==
    sugPc = "settled" =>
        /\ sugOutcome.state = "resolved"
        /\ sugFailed # "" => (sugOutcome.from = "local"
                              /\ sugOutcome.confidence_score = LocalConfidence)

-----------------------------------------------------------------------------
\* useTasks.fetchTasks (hooks/useTasks, lines 20-41), called by the hook's
\* effect at mount and after every change of the filters, by refresh and by
\* bulkUpdate. A call does not wait for the calls before it.

\* most calls of fetchTasks followed
MaxFetches == 3

inFlight == {c \in DOMAIN fetchCalls : fetchCalls[c] = "pending"}

FetchInit ==
    /\ now = WeekBase + 8 * 60 + 15
    /\ tasks = <<>>
    /\ schedule = <<>>
    /\ schedPc = "idle"
    /\ NoRerun
    /\ ServerStartsEmpty
    /\ PageUnmounted
    /\ ListUnmounted
    /\ FormsUnmounted
    /\ PrioUnmounted
    /\ AuthUnmounted
    /\ CalUnmounted
    /\ SuggestIdle
    /\ NothingApplied
    /\ FetchUnmounted
    /\ ContextUnmounted

fetchUnchangedElsewhere ==
    UNCHANGED <<schedVars, serverVars, pageVars, listVars, formVars, prioVars, authVars,
                calVars, sugVars, applyHistVars, ctxVars>>

\* fetchTasks up to its await (lines 21-25)
FetchTasksStart ==
    /\ Len(fetchCalls) < MaxFetches
    /\ fetchCalls' = Append(fetchCalls, "pending")
    /\ fetchLoading' = TRUE
    /\ fetchError' = FALSE
    /\ UNCHANGED <<fetchedTasksOf, fetchedPaginationOf>>
    /\ fetchUnchangedElsewhere

\* getTasks of call c resolved (lines 26-35, 39): the response replaces
\* tasks, and pagination when it has a count
FetchTasksResolved(c) ==
    /\ c \in inFlight
    /\ fetchCalls' = [fetchCalls EXCEPT ![c] = "ok"]
    /\ fetchedTasksOf' = c
    /\ \/ fetchedPaginationOf' = c
       \/ UNCHANGED fetchedPaginationOf
    /\ fetchLoading' = FALSE
    /\ UNCHANGED fetchError
    /\ fetchUnchangedElsewhere

\* getTasks of call c threw (lines 36-39)
FetchTasksRejected(c) ==
    /\ c \in inFlight
    /\ fetchCalls' = [fetchCalls EXCEPT ![c] = "failed"]
    /\ fetchError' = TRUE
    /\ fetchLoading' = FALSE
    /\ UNCHANGED <<fetchedTasksOf, fetchedPaginationOf>>
    /\ fetchUnchangedElsewhere

FetchNext ==
    \/ FetchTasksStart
    \/ \E c \in 1 .. MaxFetches : FetchTasksResolved(c)
    \/ \E c \in 1 .. MaxFetches : FetchTasksRejected(c)

SpecFetch == FetchInit /\ [][FetchNext]_vars

\* C25: when every call of fetchTasks has settled and the call issued last
\* was answered, tasks holds the response of that call, never the response
\* of an older call, whatever the order of the answers.
C25_LatestResponseWins ==
    (fetchCalls # <<>> /\ inFlight = {} /\ fetchCalls[Len(fetchCalls)] = "ok")
        => fetchedTasksOf = Len(fetchCalls)

\* C26: loading is false exactly when no call of fetchTasks is in flight.
C26_LoadingIffInFlight == (fetchLoading = FALSE) <=> (inFlight = {})

-----------------------------------------------------------------------------
\* useContextAnalysis (hooks/useAI, lines 193-259) under ContextInput: the
\* fetch of the entries at mount, then calls of analyzeAndCreateContext, one
\* at a time (the form's button is disabled while submitting).

\* most context entries the store holds
MaxContexts == 4

\* entries an earlier session left in the store
StoredContexts == 0 .. 1

\* the answer of GET /context-entries/?ordering=-created_at: newest first
newestFirst(n) == [k \in 1 .. n |-> n + 1 - k]

ContextInit ==
    /\ now = WeekBase + 8 * 60 + 15
    /\ tasks = <<>>
    /\ schedule = <<>>
    /\ schedPc = "idle"
    /\ NoRerun
    /\ ServerStartsEmpty
    /\ PageUnmounted
    /\ ListUnmounted
    /\ FormsUnmounted
    /\ PrioUnmounted
    /\ AuthUnmounted
    /\ CalUnmounted
    /\ SuggestIdle
    /\ NothingApplied
    /\ FetchUnmounted
    /\ serverContexts \in StoredContexts
    /\ contexts = <<>>
    /\ ctxLoading = FALSE
    /\ ctxError = FALSE
    /\ ctxPc = "mounting"
    /\ ctxCreated = {}

ctxUnchangedElsewhere ==
    UNCHANGED <<schedVars, serverVars, pageVars, listVars, formVars, prioVars, authVars,
                calVars, sugVars, applyHistVars, fetchVars>>

\* fetchContexts called by ContextInput's effect (lines 197-209), to its end
FetchContexts ==
    /\ ctxPc = "mounting"
    /\ ctxPc' = "idle"
    /\ \/ /\ contexts' = newestFirst(serverContexts)
          /\ ctxError' = FALSE
       \/ /\ ctxError' = TRUE
          /\ UNCHANGED contexts
    /\ ctxLoading' = FALSE
    /\ UNCHANGED <<serverContexts, ctxCreated>>
    /\ ctxUnchangedElsewhere

\* analyzeAndCreateContext up to its first await (lines 222-232)
AnalyzeAndCreateStart ==
    /\ ctxPc = "idle"
    /\ serverContexts < MaxContexts
    /\ ctxPc' = "creating"
    /\ ctxLoading' = TRUE
    /\ ctxError' = FALSE
    /\ UNCHANGED <<serverContexts, contexts, ctxCreated>>
    /\ ctxUnchangedElsewhere

\* createContextEntry resolved: the entry is in the store, analyzeContext
\* is called (line 235)
CreateContextEntryResolved ==
    /\ ctxPc = "creating"
    /\ serverContexts' = serverContexts + 1
    /\ ctxCreated' = ctxCreated \cup {serverContexts + 1}
    /\ ctxPc' = "analyzing"
    /\ UNCHANGED <<contexts, ctxLoading, ctxError>>
    /\ ctxUnchangedElsewhere

\* the catch and finally blocks (lines 241-247)
analyzeAndCreateFailed ==
    /\ ctxError' = TRUE
    /\ ctxLoading' = FALSE
    /\ ctxPc' = "idle"

\* createContextEntry threw: nothing was created
CreateContextEntryRejected ==
    /\ ctxPc = "creating"
    /\ analyzeAndCreateFailed
    /\ UNCHANGED <<serverContexts, contexts, ctxCreated>>
    /\ ctxUnchangedElsewhere

\* analyzeContext resolved: the created entry is put in front of contexts
\* (line 238)
AnalyzeContextResolved ==
    /\ ctxPc = "analyzing"
    /\ contexts' = <<serverContexts>> \o contexts
    /\ ctxLoading' = FALSE
    /\ ctxPc' = "idle"
    /\ UNCHANGED <<serverContexts, ctxError, ctxCreated>>
    /\ ctxUnchangedElsewhere

\* analyzeContext threw: the catch block runs before line 238
AnalyzeContextRejected ==
    /\ ctxPc = "analyzing"
    /\ analyzeAndCreateFailed
    /\ UNCHANGED <<serverContexts, contexts, ctxCreated>>
    /\ ctxUnchangedElsewhere

ContextNext ==
    \/ FetchContexts
    \/ AnalyzeAndCreateStart
    \/ CreateContextEntryResolved
    \/ CreateContextEntryRejected
    \/ AnalyzeContextResolved
    \/ AnalyzeContextRejected

SpecContext == ContextInit /\ [][ContextNext]_vars

\* C28: once a call of analyzeAndCreateContext has settled, every entry
\* that its createContextEntry created is in the contexts list, also when
\* the analyzeContext request that followed failed.
C28_CreatedEntriesListed ==
    ctxPc = "idle" =>
        \A id \in ctxCreated : \E k \in DOMAIN contexts : contexts[k] = id

====
